---- MODULE Spec2Model ----
(***************************************************************************)
(* papyrus: RSS ingestion and ranking server (src/server/app.py,           *)
(* src/server/utils.py, src/server/svm.py).                                *)
(*                                                                         *)
(* State: the two DuckDB tables (feeds, articles), the three TTL caches,   *)
(* the process-wide SVMModel, the wall clock, the parse_feed coroutines    *)
(* suspended in their HTTP GET, the position of the sequential             *)
(* parse_all_feeds batch, and the last response handed to a caller.        *)
(***************************************************************************)
EXTENDS Integers, Sequences, FiniteSets, TLC

VARIABLES
    feeds,               \* feeds table: sequence of rows [url, name, timestamp]
    articles,            \* articles table: sequence of rows, in insertion order
    now,                 \* datetime.now(), in ticks of CACHE_TTL
    started,             \* lifespan() has run its startup half
    article_cache,       \* TTLCache behind load_article_data
    liked_article_cache, \* TTLCache behind load_liked_articles
    svm_cache,           \* TTLCache behind fit_svm
    model,               \* SVMModel: [emb: tfidf and pca fitted, svm: the SVC]
    reqs,                \* per request slot: parse_feed coroutines awaiting the GET
    batch,               \* parse_all_feeds: [running, todo, current_time]
    resp                 \* what the step just taken returned (or raised) to its caller

vars == <<feeds, articles, now, started, article_cache, liked_article_cache,
          svm_cache, model, reqs, batch, resp>>

-----------------------------------------------------------------------------
(* Values *)

\* Python None / SQL NULL in a string-valued field.
NULL == "NULL"
\* None / SQL NULL in the DATE column (dates are day numbers).
NullDate == -1
\* The '1900-01-01' that a NULL date is coalesced to in ORDER BY and in the sort key.
Date1900 == 2
\* datetime.min, the timestamp create_feed stores.
DatetimeMin == 0
\* timedelta(minutes=5); one clock tick is five minutes.
CACHE_TTL == 1
\* Entries translated per fetch, and LIMIT of load_article_data (500 in the source,
\* scaled to the size of the modelled feeds).
MAX_ARTICLES == 3
\* SVMModel.min_dataset_size (25 in the source, scaled likewise).
min_dataset_size == 2

\* Bounds of the model: the last clock tick, and the rows the articles table holds.
MaxTime == 4
MaxRows == 4
MaxCorpus == 4

\* The clock when the process starts: any real "now" is further than CACHE_TTL
\* from datetime.min.
StartTime == DatetimeMin + CACHE_TTL + 1

\* Request slots: the get_all_articles calls that can be in flight at once.
Reqs == {"r1"}

Min(a, b) == IF a <= b THEN a ELSE b

RECURSIVE SeqToSet(_)
SeqToSet(s) == IF s = <<>> THEN {} ELSE {Head(s)} \cup SeqToSet(Tail(s))

RemoveAt(s, i) == SubSeq(s, 1, i - 1) \o SubSeq(s, i + 1, Len(s))

-----------------------------------------------------------------------------
(* Upstream feeds: what feedparser hands back for a fetched document *)

\* A date string of an entry: absent, unparseable, or a day with a time of day.
NoDateStr == [kind |-> "absent", day |-> 0, tod |-> 0]
BadDateStr == [kind |-> "bad", day |-> 0, tod |-> 0]
DateStr(d, t) == [kind |-> "ok", day |-> d, tod |-> t]

\* The description field of an entry: absent, a plain string, or a tuple.
NoDescription == [kind |-> "absent", value |-> <<>>]
StrDescription(s) == [kind |-> "str", value |-> <<s>>]
TupleDescription(s) == [kind |-> "tuple", value |-> <<s, "rest">>]

Item(title, link, content, description, published, updated, pubDate) ==
    [title |-> title, link |-> link, content |-> content,
     description |-> description, published |-> published,
     updated |-> updated, pubDate |-> pubDate]

\* u1: title, link, structured content, published date.
ItemA == Item("tA", "u1", <<"cA">>, NoDescription, DateStr(3, 1), NoDateStr, NoDateStr)
\* u2: title, link, plain-string description, only an "updated" date (before 1900).
ItemB == Item("tB", "u2", <<>>, StrDescription("sB"), NoDateStr, DateStr(1, 0), NoDateStr)
\* no link: title, tuple description, unparseable published date.
ItemC == Item("tC", NULL, <<>>, TupleDescription("dC"), BadDateStr, DateStr(3, 0), NoDateStr)
\* u3: no title, no description, only pubDate.
ItemD == Item(NULL, "u3", <<>>, NoDescription, NoDateStr, NoDateStr, DateStr(3, 2))
\* u2 again with new content: structured content and a description, no date at all.
ItemE == Item("tE", "u2", <<"cE", "cE2">>, StrDescription("sE"), NoDateStr, NoDateStr, NoDateStr)

\* The feed urls a client registers.
FeedUrls == {"f1", "f2"}

\* The documents a fetch can return. No document lists a link twice (DuckDB
\* rejects a statement that proposes the same key twice).
\* One feed with changing content: two entries, or three entries of which one has
\* no link and one gives u2 new content.
Responses(feed_url) == { <<ItemA, ItemB>>, <<ItemA, ItemE, ItemC>> }
\* Two feeds with short documents, one of them sometimes empty; both can list u1.
ShortResponses(feed_url) ==
    IF feed_url = "f1" THEN { <<>>, <<ItemA>> } ELSE { <<ItemD, ItemA>> }
\* create_feed's feed_name argument for each url.
FeedName(feed_url) == IF feed_url = "f1" THEN "n1" ELSE "n2"

-----------------------------------------------------------------------------
(* Feed parser: the loop body of parse_feed / parse_one_feed *)

\* title = item.title if 'title' in item else None
EntryTitle(item) == item.title

\* url = item.link if 'link' in item else None
EntryUrl(item) == item.link

\* description: content[0].value, else the description field when it is a tuple
\* (its first element); a plain-string description is replaced by None.
EntryDescription(item) ==
    IF item.content # <<>> THEN Head(item.content)
    ELSE IF item.description.kind # "absent"
         THEN IF item.description.kind = "tuple"
              THEN Head(item.description.value)
              ELSE NULL
         ELSE NULL

\* date_str: published, else updated, else pubDate (by presence, not validity).
EntryDateStr(item) ==
    IF item.published.kind # "absent" THEN item.published
    ELSE IF item.updated.kind # "absent" THEN item.updated
    ELSE item.pubDate

\* parse(date_str).strftime('%Y-%m-%d'): the day, without the time of day;
\* None when there is no date string or dateutil raises.
EntryDate(item) ==
    LET ds == EntryDateStr(item)
    IN IF ds.kind = "ok" THEN ds.day ELSE NullDate

\* The tuple appended to articles_to_insert, with the FALSE of the VALUES clause.
ArticleTuple(feed_url, feed_name, item) ==
    [feed_name |-> feed_name, feed_url |-> feed_url, title |-> EntryTitle(item),
     url |-> EntryUrl(item), date |-> EntryDate(item),
     description |-> EntryDescription(item), is_liked |-> FALSE]

\* for item in parsed_feed.entries: ... break once MAX_ARTICLES are translated.
ParseEntries(feed_url, feed_name, entries) ==
    [i \in 1..Min(Len(entries), MAX_ARTICLES) |->
        ArticleTuple(feed_url, feed_name, entries[i])]

-----------------------------------------------------------------------------
(* Article store *)

\* Faulty variant: no UNIQUE constraint, nothing conflicts.
ConflictRowNever(rows, t) == 0

\* url VARCHAR UNIQUE: the index of the stored row a proposed row conflicts with,
\* 0 when there is none. A NULL url conflicts with nothing.
ConflictRow(rows, t) ==
    IF t.url = NULL \/ \A i \in 1..Len(rows) : rows[i].url # t.url
    THEN 0
    ELSE CHOOSE i \in 1..Len(rows) : rows[i].url = t.url

\* Faulty variant: the conflict update takes every column of the proposed row, is_liked too.
ConflictUpdateAllColumns(old, t) == t

\* ON CONFLICT (url) DO UPDATE SET feed_name, feed_url, title, description, date.
ConflictUpdate(old, t) ==
    [old EXCEPT !.feed_name = t.feed_name, !.feed_url = t.feed_url,
                !.title = t.title, !.description = t.description,
                !.date = t.date]

\* One proposed row of the INSERT ... ON CONFLICT statement.
UpsertRow(rows, t) ==
    LET i == ConflictRow(rows, t)
    IN IF i = 0 THEN Append(rows, t)
       ELSE [rows EXCEPT ![i] = ConflictUpdate(rows[i], t)]

RECURSIVE Upsert(_, _)
\* The whole statement: every proposed row, in VALUES order.
Upsert(rows, tuples) ==
    IF tuples = <<>> THEN rows
    ELSE Upsert(UpsertRow(rows, Head(tuples)), Tail(tuples))

\* if articles_to_insert: db.execute(INSERT ...)
InsertArticles(rows, tuples) ==
    IF tuples # <<>> THEN Upsert(rows, tuples) ELSE rows

\* UPDATE feeds SET timestamp = ? WHERE url = ?
MarkRefreshed(fs, feed_url, current_time) ==
    [i \in 1..Len(fs) |->
        IF fs[i].url = feed_url THEN [fs[i] EXCEPT !.timestamp = current_time]
        ELSE fs[i]]

\* Faulty variant: a feed refreshed exactly CACHE_TTL ago counts as stale.
IsStaleAtTtl(feed, time) == time - feed.timestamp >= CACHE_TTL

\* datetime.now() - datetime.fromisoformat(feed['timestamp']) > CACHE_TTL
IsStale(feed, time) == time - feed.timestamp > CACHE_TTL

\* UPDATE articles SET is_liked = NOT is_liked WHERE url = ?
ToggleRows(rows, url) ==
    [i \in 1..Len(rows) |->
        IF rows[i].url # NULL /\ rows[i].url = url
        THEN [rows[i] EXCEPT !.is_liked = ~rows[i].is_liked]
        ELSE rows[i]]

-----------------------------------------------------------------------------
(* Embedding model and classifier (svm.py) *)

Truthy(s) == s # NULL /\ s # ""
OrEmpty(s) == IF Truthy(s) THEN s ELSE ""

\* description + ' ' + title, kept as the pair of its two parts.
Text(description, title) == <<OrEmpty(description), OrEmpty(title)>>

\* The texts the modelled feeds can produce.
Texts ==
    { Text(EntryDescription(i), EntryTitle(i)) :
        i \in {ItemA, ItemB, ItemC, ItemD, ItemE} } \ { <<"", "">> }

\* Probabilities, in percent: predict_proba of a fitted SVC, and the 0.5 fallback.
ProbLow == 20
ProbHigh == 80
Ambivalent == 50

\* What SVC.fit can produce: a scoring function, given by the texts it scores high
\* (none, or the text of the one article with a description that can be liked).
Classifiers == { {}, {Text(EntryDescription(ItemE), EntryTitle(ItemE))} }

\* self.svm: None, an SVC whose fit has not succeeded, or a fitted SVC; trained_on
\* is the embedding transform that produced the vectors it was fitted on.
NoSvm == [state |-> "None", high |-> {}, trained_on |-> 0]
UnfittedSvm == [state |-> "unfitted", high |-> {}, trained_on |-> 0]
FittedSvm(high) == [state |-> "fitted", high |-> high, trained_on |-> 0]

\* SVMModel.__init__
\* transform numbers the fitted tfidf and pca pairs of the process: 0 before the
\* first fit, n for the n-th pair.
NewModel == [emb |-> FALSE, transform |-> 0, svm |-> NoSvm]

\* gen_embeddings_data: the rows with a description and a title.
gen_embeddings_data(rows) ==
    SelectSeq(rows, LAMBDA a : Truthy(a.description) /\ Truthy(a.title))

\* SVMModel.train_embeddings: [model, ok]
train_embeddings(m, dataset) ==
    IF Len(dataset) < min_dataset_size THEN [model |-> m, ok |-> FALSE]
    ELSE IF m.emb THEN [model |-> m, ok |-> TRUE]
    ELSE [model |-> [m EXCEPT !.emb = TRUE, !.transform = m.transform + 1],
          ok |-> TRUE]

LikedIdx(rows) == { i \in 1..Len(rows) : rows[i].is_liked }
UnlikedIdx(rows) == { i \in 1..Len(rows) : ~rows[i].is_liked }

\* ORDER BY RANDOM() LIMIT len(liked_articles): the possible samples of unliked rows.
Samples(rows) ==
    LET n == Min(Cardinality(LikedIdx(rows)), Cardinality(UnlikedIdx(rows)))
    IN { S \in SUBSET UnlikedIdx(rows) : Cardinality(S) = n }

\* gen_svm_data: "None" without liked rows; otherwise the labels of the liked and
\* sampled rows that have a description and a title; "raise" when none has
\* (X, y = zip(*[]) cannot unpack).
gen_svm_data(rows, sample) ==
    LET used == { i \in LikedIdx(rows) \cup sample :
                    Truthy(rows[i].description) /\ Truthy(rows[i].title) }
    IN IF LikedIdx(rows) = {} THEN [kind |-> "None", X |-> {}, y |-> {}]
       ELSE IF used = {} THEN [kind |-> "raise", X |-> {}, y |-> {}]
       ELSE [kind |-> "data", X |-> used,
             y |-> { rows[i].is_liked : i \in used }]

\* Faulty variant: the new SVC is assigned and never fitted.
train_svm_without_fit(m, y, clf) ==
    IF ~m.emb THEN [model |-> m, raised |-> FALSE]
    ELSE [model |-> [m EXCEPT !.svm = UnfittedSvm], raised |-> FALSE]

\* SVMModel.train_svm: self.svm = SVC(...), then fit, which raises on a single class.
train_svm(m, y, clf) ==
    IF ~m.emb THEN [model |-> m, raised |-> FALSE]
    ELSE IF Cardinality(y) < 2
         THEN [model |-> [m EXCEPT !.svm = UnfittedSvm], raised |-> TRUE]
         ELSE [model |-> [m EXCEPT !.svm = [FittedSvm(clf) EXCEPT
                                              !.trained_on = m.transform]],
               raised |-> FALSE]

\* The body of fit_svm (without its cache): [model, result], result one of
\* "True", "False", "raise".
fit_svm_body(m, rows, sample, clf) ==
    LET te == IF m.emb THEN [model |-> m, ok |-> TRUE]
              ELSE train_embeddings(m, gen_embeddings_data(rows))
        data == gen_svm_data(rows, sample)
        ts == train_svm(te.model, data.y, clf)
    IN IF ~te.ok THEN [model |-> te.model, result |-> "False"]
       ELSE IF data.kind = "None" THEN [model |-> te.model, result |-> "False"]
       ELSE IF data.kind = "raise" THEN [model |-> te.model, result |-> "raise"]
       ELSE IF ts.raised THEN [model |-> ts.model, result |-> "raise"]
       ELSE [model |-> ts.model, result |-> "True"]

\* What predict hands back other than a probability: False without a classifier,
\* and sklearn's NotFittedError (a ValueError) from predict_proba of an SVC that
\* was never fitted, or on the False that embed returns without a transform.
PredictFalse == -1
NotFittedError == -2

\* SVMModel.predict after SVMModel.embed, on one text.
predict(m, text) ==
    IF m.svm.state = "None" THEN PredictFalse
    ELSE IF m.svm.state = "unfitted" \/ ~m.emb THEN NotFittedError
         ELSE IF text \in m.svm.high THEN ProbHigh ELSE ProbLow

-----------------------------------------------------------------------------
(* Caches (cachetools.TTLCache behind @cached) *)

EmptyCache(v) == [full |-> FALSE, expires |-> 0, value |-> v]
\* An entry is served while timer() < expires.
CacheHit(c, time) == c.full /\ time < c.expires
\* TTLCache.expire
Expire(c, time, v) == IF CacheHit(c, time) THEN c ELSE EmptyCache(v)
CacheStore(v, time) == [full |-> TRUE, expires |-> time + CACHE_TTL, value |-> v]

-----------------------------------------------------------------------------
(* Ranking pipeline (app.py) *)

\* COALESCE(date, '1900-01-01') and x['date'] or '1900-01-01'
CoalesceDate(d) == IF d = NullDate THEN Date1900 ELSE d

RECURSIVE InsertByDate(_, _)
\* a placed behind every element whose date is not older (rows of equal date keep
\* table order).
InsertByDate(sorted, a) ==
    IF sorted = <<>> THEN <<a>>
    ELSE IF CoalesceDate(Head(sorted).date) >= CoalesceDate(a.date)
         THEN <<Head(sorted)>> \o InsertByDate(Tail(sorted), a)
         ELSE <<a>> \o sorted

RECURSIVE OrderByDateDesc(_)
OrderByDateDesc(rows) ==
    IF rows = <<>> THEN <<>>
    ELSE InsertByDate(OrderByDateDesc(SubSeq(rows, 1, Len(rows) - 1)),
                      rows[Len(rows)])

\* json_object('name', feed_name, 'title', ..., 'description', description)
ArticleJson(row) ==
    [name |-> row.feed_name, title |-> row.title, url |-> row.url,
     date |-> row.date, is_liked |-> row.is_liked,
     description |-> row.description]

\* The body of load_article_data: ORDER BY date DESC LIMIT MAX_ARTICLES.
load_article_data(rows) ==
    LET ordered == OrderByDateDesc(rows)
    IN [i \in 1..Min(Len(ordered), MAX_ARTICLES) |-> ArticleJson(ordered[i])]

\* The body of load_liked_articles: SELECT url FROM articles WHERE is_liked = true
load_liked_articles(rows) == { rows[i].url : i \in LikedIdx(rows) }

\* The svm_prob of one article in refresh_articles.
Score(m, svm_is_trained, article) ==
    IF svm_is_trained /\ (Truthy(article.description) \/ Truthy(article.title))
    THEN predict(m, Text(article.description, article.title))
    ELSE Ambivalent

\* The sort key of get_all_articles: (-svm_prob, -timestamp(date or 1900-01-01)).
KeyLess(a, b) ==
    \/ a.svm_prob > b.svm_prob
    \/ /\ a.svm_prob = b.svm_prob
       /\ CoalesceDate(a.date) > CoalesceDate(b.date)

RECURSIVE InsertByKey(_, _)
InsertByKey(sorted, a) ==
    IF sorted = <<>> THEN <<a>>
    ELSE IF KeyLess(a, Head(sorted)) THEN <<a>> \o sorted
         ELSE <<Head(sorted)>> \o InsertByKey(Tail(sorted), a)

RECURSIVE SortedByKey(_)
\* sorted(items, key=...): stable.
SortedByKey(items) ==
    IF items = <<>> THEN <<>>
    ELSE InsertByKey(SortedByKey(SubSeq(items, 1, Len(items) - 1)),
                     items[Len(items)])

\* parsed_articles[start_idx:end_idx]
Slice(items, start_idx, end_idx) ==
    SubSeq(items, start_idx + 1, Min(end_idx, Len(items)))

\* Faulty variant: is_liked is left as the cached article row has it.
RelabelKeepsCachedRow(all_articles, liked_urls) == all_articles

\* article['is_liked'] = article['url'] in liked_urls, for every article
Relabel(all_articles, liked_urls) ==
    [i \in 1..Len(all_articles) |->
       [all_articles[i] EXCEPT !.is_liked = all_articles[i].url \in liked_urls]]

\* load_article_data() behind its cache.
CachedArticleData(ac, rows, time) ==
    IF CacheHit(ac, time) THEN ac.value ELSE load_article_data(rows)

\* load_liked_articles() behind its cache.
CachedLikedArticles(lc, rows, time) ==
    IF CacheHit(lc, time) THEN lc.value ELSE load_liked_articles(rows)

\* fit_svm(model) behind its cache: [model, result]; a cached result leaves the
\* model alone.
fit_svm(sc, m, rows, time, sample, clf) ==
    IF CacheHit(sc, time)
    THEN [model |-> m, result |-> IF sc.value THEN "True" ELSE "False"]
    ELSE fit_svm_body(m, rows, sample, clf)

\* The articles whose scoring raises; the loop of refresh_articles stops at the
\* first of them.
ScoringFails(m, trained, all_articles) ==
    { i \in 1..Len(all_articles) :
        Score(m, trained, all_articles[i]) = NotFittedError }

\* The cached article rows after a loop that stopped at the first failing one.
ReachedByLoop(all_articles, relabelled, failing) ==
    [i \in 1..Len(all_articles) |->
       IF \E j \in failing : j <= i THEN all_articles[i] ELSE relabelled[i]]

\* parsed_articles: {**article, 'svm_prob': svm_prob} for every article.
ParsedArticles(m, trained, relabelled) ==
    [i \in 1..Len(relabelled) |->
       [name |-> relabelled[i].name, title |-> relabelled[i].title,
        url |-> relabelled[i].url, date |-> relabelled[i].date,
        is_liked |-> relabelled[i].is_liked,
        description |-> relabelled[i].description,
        svm_prob |-> Score(m, trained, relabelled[i])]]

\* The value an article-list cache holds after refresh_articles' call of
\* load_article_data and its loop's writes into the cached rows.
ArticleCacheAfter(ac, time, value) ==
    IF CacheHit(ac, time) THEN [ac EXCEPT !.value = value]
    ELSE CacheStore(value, time)

\* refresh_articles() from the three calls' results on.
ScoreLoop(ac, lc, sc, time, all_articles, liked_urls, fit) ==
    LET trained == fit.result = "True"
        relabelled == Relabel(all_articles, liked_urls)
        failing == ScoringFails(fit.model, trained, all_articles)
        lc2 == IF CacheHit(lc, time) THEN lc ELSE CacheStore(liked_urls, time)
        sc2 == IF CacheHit(sc, time) THEN sc ELSE CacheStore(trained, time)
    IN IF fit.result = "raise"
       THEN [article_cache |-> ArticleCacheAfter(ac, time, all_articles),
             liked_article_cache |-> lc2, svm_cache |-> sc, model |-> fit.model,
             raised |-> TRUE, parsed_articles |-> <<>>, svm_is_trained |-> FALSE]
       ELSE IF failing # {}
       THEN [article_cache |->
                 ArticleCacheAfter(ac, time,
                     ReachedByLoop(all_articles, relabelled, failing)),
             liked_article_cache |-> lc2, svm_cache |-> sc2, model |-> fit.model,
             raised |-> TRUE, parsed_articles |-> <<>>, svm_is_trained |-> trained]
       ELSE [article_cache |-> ArticleCacheAfter(ac, time, relabelled),
             liked_article_cache |-> lc2, svm_cache |-> sc2,
             model |-> fit.model, raised |-> FALSE,
             parsed_articles |-> ParsedArticles(fit.model, trained, relabelled),
             svm_is_trained |-> trained]

\* refresh_articles(), given the three caches, the model, the table and the clock:
\* [article_cache, liked_article_cache, svm_cache, model, raised, parsed_articles,
\*  svm_is_trained]. sample and clf resolve ORDER BY RANDOM() and SVC.fit.
refresh_articles(ac, lc, sc, m, rows, time, sample, clf) ==
    ScoreLoop(ac, lc, sc, time, CachedArticleData(ac, rows, time), CachedLikedArticles(lc, rows, time), fit_svm(sc, m, rows, time, sample, clf))

\* What a step hands back: the operation, whether it returned ("ok") or raised,
\* its arguments, and what it returned. For a ranking request parsed_articles
\* and svm_is_trained are refresh_articles()'s locals; for a parse they are unused
\* and items are the translated tuples; for a direct call of train_embeddings
\* items is the corpus passed and embeddings_exist the returned boolean.
Message(op, url) ==
    [op |-> op, status |-> "ok", error |-> "", url |-> url, current_time |-> 0,
     page_num |-> 0, items_per_page |-> 0, refresh |-> FALSE,
     items |-> <<>>, total_pages |-> 0, parsed_articles |-> <<>>,
     svm_is_trained |-> FALSE, embeddings_exist |-> FALSE]
NoResponse == Message("none", "")
Raised(op, error) == [Message(op, "") EXCEPT !.status = "error", !.error = error]
\* A parse of one feed that ran to its end or returned early.
Parsed(op, feed_url, current_time, fetched, tuples) ==
    [Message(op, feed_url) EXCEPT !.current_time = current_time,
                                  !.error = IF fetched THEN "" ELSE "fetch",
                                  !.items = tuples]

\* A ranking request's response record, with the arguments of the request.
RankMessage(page_num, items_per_page, refresh) ==
    [Message("get_all_articles", "") EXCEPT !.page_num = page_num,
                                            !.items_per_page = items_per_page,
                                            !.refresh = refresh]

\* Faulty variant: a final partial page counts as a page.
TotalPagesCeiling(total_items, items_per_page) ==
    (total_items + items_per_page - 1) \div items_per_page

\* len(parsed_articles) // items_per_page
TotalPages(total_items, items_per_page) == total_items \div items_per_page

\* get_all_articles from "if refresh:" on: [article_cache, liked_article_cache,
\* svm_cache, model, resp].
RankAndPaginate(ac, lc, sc, m, rows, time, page_num, items_per_page, refresh, sample, clf) ==
    LET ac1 == IF refresh THEN EmptyCache(<<>>) ELSE ac
        sc1 == IF refresh THEN EmptyCache(FALSE) ELSE sc
        ra == refresh_articles(ac1, lc, sc1, m, rows, time, sample, clf)
        start_idx == page_num * items_per_page
        end_idx == start_idx + items_per_page
    IN [article_cache |-> ra.article_cache,
        liked_article_cache |-> ra.liked_article_cache,
        svm_cache |-> ra.svm_cache, model |-> ra.model,
        resp |->
          IF ra.raised
          THEN [RankMessage(page_num, items_per_page, refresh) EXCEPT
                  !.status = "error", !.error = "ValueError"]
          ELSE IF items_per_page = 0
               THEN [RankMessage(page_num, items_per_page, refresh) EXCEPT
                       !.status = "error", !.error = "ZeroDivisionError"]
               ELSE [RankMessage(page_num, items_per_page, refresh) EXCEPT
                       !.items = SortedByKey(Slice(ra.parsed_articles,
                                                   start_idx, end_idx)),
                       !.total_pages = TotalPages(Len(ra.parsed_articles),
                                                  items_per_page),
                       !.parsed_articles = ra.parsed_articles,
                       !.svm_is_trained = ra.svm_is_trained]]

-----------------------------------------------------------------------------
(* Inputs *)

\* The url argument of toggle_like_article: a url the feeds list, and one they
\* never list.
Urls == {"u2", "u9"}
\* The (page_num, items_per_page, refresh) arguments of get_all_articles.
RankArgs == { <<0, 2, FALSE>>, <<0, 3, TRUE>>, <<1, 1, FALSE>>, <<0, 0, FALSE>> }
\* The outcome of the awaited GET and feedparser.parse: an exception or a document.
FetchError == [ok |-> FALSE, entries |-> <<>>]
FetchOutcomes(documents) ==
    {FetchError} \cup { [ok |-> TRUE, entries |-> d] : d \in documents }

-----------------------------------------------------------------------------
(* State machine *)

IdleReq == [pc |-> "idle", tasks |-> <<>>]
IdleBatch == [running |-> FALSE, todo |-> <<>>, current_time |-> 0]

Init ==
    /\ feeds = <<>>
    /\ articles = <<>>
    /\ now = StartTime
    /\ started = FALSE
    /\ article_cache = EmptyCache(<<>>)
    /\ liked_article_cache = EmptyCache({})
    /\ svm_cache = EmptyCache(FALSE)
    /\ model = NewModel
    /\ reqs = [r \in Reqs |-> IdleReq]
    /\ batch = IdleBatch
    /\ resp = NoResponse

\* The wall clock advances. TTLCache treats an entry whose time is up as absent
\* (and drops it at its next access): it is dropped here.
Tick ==
    /\ now < MaxTime
    /\ now' = now + 1
    /\ article_cache' = Expire(article_cache, now + 1, <<>>)
    /\ liked_article_cache' = Expire(liked_article_cache, now + 1, {})
    /\ svm_cache' = Expire(svm_cache, now + 1, FALSE)
    /\ resp' = NoResponse
    /\ UNCHANGED <<feeds, articles, started, model, reqs, batch>>

\* lifespan(), startup half, on the fresh database: no feed to parse, then
\* refresh_articles().
lifespan ==
    /\ ~started
    /\ \E sample \in Samples(articles), clf \in Classifiers :
         LET ra == refresh_articles(article_cache, liked_article_cache, svm_cache,
                                    model, articles, now, sample, clf)
         IN /\ article_cache' = ra.article_cache
            /\ liked_article_cache' = ra.liked_article_cache
            /\ svm_cache' = ra.svm_cache
            /\ model' = ra.model
    /\ started' = TRUE
    /\ resp' = NoResponse
    /\ UNCHANGED <<feeds, articles, now, reqs, batch>>

\* POST /api/create_feed
create_feed(feed_url, feed_name) ==
    /\ started
    /\ \A i \in 1..Len(feeds) : feeds[i].url # feed_url
    /\ feeds' = Append(feeds, [url |-> feed_url, name |-> feed_name,
                               timestamp |-> DatetimeMin])
    /\ resp' = Message("create_feed", feed_url)
    /\ UNCHANGED <<articles, now, started, article_cache, liked_article_cache,
                   svm_cache, model, reqs, batch>>

\* Faulty variant: only the feed row is deleted.
delete_feed_row_only(feed_url) ==
    /\ started
    /\ feeds' = SelectSeq(feeds, LAMBDA f : f.url # feed_url)
    /\ resp' = Message("delete_feed", feed_url)
    /\ UNCHANGED <<articles, now, started, article_cache, liked_article_cache,
                   svm_cache, model, reqs, batch>>

\* DELETE /api/delete_feed
delete_feed(feed_url) ==
    /\ started
    /\ feeds' = SelectSeq(feeds, LAMBDA f : f.url # feed_url)
    /\ articles' = SelectSeq(articles, LAMBDA a : a.feed_url # feed_url)
    /\ resp' = Message("delete_feed", feed_url)
    /\ UNCHANGED <<now, started, article_cache, liked_article_cache, svm_cache,
                   model, reqs, batch>>

\* POST /api/toggle_like_article
toggle_like_article(url) ==
    /\ started
    /\ articles' = ToggleRows(articles, url)
    /\ liked_article_cache' = EmptyCache({})
    /\ resp' = Message("toggle_like_article", url)
    /\ UNCHANGED <<feeds, now, started, article_cache, svm_cache, model, reqs,
                   batch>>

\* The parse_feed coroutines get_all_articles creates: one per stale feed, each
\* having read current_time before it awaits its GET.
StaleTasks(fs, time) ==
    LET stale == SelectSeq(fs, LAMBDA f : IsStale(f, time))
    IN [i \in 1..Len(stale) |->
          [url |-> stale[i].url, name |-> stale[i].name, current_time |-> time]]

\* Faulty variant: the articles are scored with the model as it was before this
\* request's fit_svm ran.
RankScoredBeforeFit(page_num, items_per_page, refresh) ==
    \E sample \in Samples(articles), clf \in Classifiers :
        LET out == RankAndPaginate(article_cache, liked_article_cache, svm_cache, model, articles, now, page_num, items_per_page, refresh, sample, clf)
            rescored == [k \in 1..Len(out.resp.parsed_articles) |->
                           [out.resp.parsed_articles[k] EXCEPT
                              !.svm_prob = Score(model, out.resp.svm_is_trained,
                                                 out.resp.parsed_articles[k])]]
        IN /\ article_cache' = out.article_cache
           /\ liked_article_cache' = out.liked_article_cache
           /\ svm_cache' = out.svm_cache
           /\ model' = out.model
           /\ resp' = [out.resp EXCEPT !.parsed_articles = rescored]

\* get_all_articles from "if refresh:" to its return, as one step.
Rank(page_num, items_per_page, refresh) ==
    \E sample \in Samples(articles), clf \in Classifiers :
        LET out == RankAndPaginate(article_cache, liked_article_cache, svm_cache,
                                   model, articles, now, page_num, items_per_page,
                                   refresh, sample, clf)
        IN /\ article_cache' = out.article_cache
           /\ liked_article_cache' = out.liked_article_cache
           /\ svm_cache' = out.svm_cache
           /\ model' = out.model
           /\ resp' = out.resp

\* GET /api/all_articles up to "await asyncio.gather(*tasks)". With no stale feed
\* the gather does not suspend and the handler runs to its return.
get_all_articles(r, page_num, items_per_page, refresh) ==
    /\ started
    /\ reqs[r].pc = "idle"
    /\ LET tasks == StaleTasks(feeds, now)
       IN IF tasks = <<>>
          THEN /\ Rank(page_num, items_per_page, refresh)
               /\ UNCHANGED reqs
          ELSE /\ reqs' = [reqs EXCEPT ![r] = [pc |-> "fetching", tasks |-> tasks]]
               /\ resp' = NoResponse
               /\ UNCHANGED <<article_cache, liked_article_cache, svm_cache,
                              model>>
    /\ UNCHANGED <<feeds, articles, now, started, batch>>

\* parse_feed from the return of "await client.get" to its end, for task i of
\* request r: an exception returns at once; a document is translated, upserted and
\* the feed's timestamp set to the current_time read before the await.
parse_feed(r, i, outcome) ==
    /\ reqs[r].pc = "fetching"
    /\ LET task == reqs[r].tasks[i]
           articles_to_insert == ParseEntries(task.url, task.name, outcome.entries)
       IN IF ~outcome.ok
          THEN UNCHANGED <<articles, feeds>>
          ELSE /\ Len(InsertArticles(articles, articles_to_insert)) <= MaxRows
               /\ articles' = InsertArticles(articles, articles_to_insert)
               /\ feeds' = MarkRefreshed(feeds, task.url, task.current_time)
    /\ reqs' = [reqs EXCEPT ![r].tasks = RemoveAt(reqs[r].tasks, i)]
    /\ resp' = Parsed("parse_feed", reqs[r].tasks[i].url,
                      reqs[r].tasks[i].current_time, outcome.ok,
                      ParseEntries(reqs[r].tasks[i].url, reqs[r].tasks[i].name,
                                   outcome.entries))
    /\ UNCHANGED <<now, started, article_cache, liked_article_cache, svm_cache,
                   model, batch>>

\* get_all_articles after the gather has completed.
get_all_articles_resume(r, page_num, items_per_page, refresh) ==
    /\ reqs[r].pc = "fetching"
    /\ reqs[r].tasks = <<>>
    /\ Rank(page_num, items_per_page, refresh)
    /\ reqs' = [reqs EXCEPT ![r] = IdleReq]
    /\ UNCHANGED <<feeds, articles, now, started, batch>>

\* parse_all_feeds (utils.py) up to its first "await parse_one_feed(feed)".
parse_all_feeds ==
    /\ started
    /\ ~batch.running
    /\ IF feeds = <<>>
       THEN /\ resp' = Message("parse_all_feeds", "")
            /\ UNCHANGED batch
       ELSE /\ batch' = [running |-> TRUE, todo |-> feeds, current_time |-> now]
            /\ resp' = NoResponse
    /\ UNCHANGED <<feeds, articles, now, started, article_cache,
                   liked_article_cache, svm_cache, model, reqs>>

\* One turn of parse_all_feeds' loop, from the return of parse_one_feed's GET:
\* parse_one_feed re-raises a fetch failure, which ends the batch; otherwise the
\* feed's articles are upserted and its timestamp set to the batch's current_time.
parse_one_feed(outcome) ==
    /\ batch.running
    /\ LET feed == Head(batch.todo)
           feed_articles == ParseEntries(feed.url, feed.name, outcome.entries)
       IN IF ~outcome.ok
          THEN /\ batch' = IdleBatch
               /\ resp' = Raised("parse_all_feeds", "Exception")
               /\ UNCHANGED <<articles, feeds>>
          ELSE /\ Len(InsertArticles(articles, feed_articles)) <= MaxRows
               /\ articles' = InsertArticles(articles, feed_articles)
               /\ feeds' = MarkRefreshed(feeds, feed.url, batch.current_time)
               /\ IF Tail(batch.todo) = <<>>
                  THEN /\ batch' = IdleBatch
                       /\ resp' = Parsed("parse_all_feeds", feed.url,
                                         batch.current_time, TRUE, feed_articles)
                  ELSE /\ batch' = [batch EXCEPT !.todo = Tail(batch.todo)]
                       /\ resp' = Parsed("parse_one_feed", feed.url,
                                         batch.current_time, TRUE, feed_articles)
    /\ UNCHANGED <<now, started, article_cache, liked_article_cache, svm_cache,
                   model, reqs>>

\* The server of app.py with one registered feed whose content changes, likes,
\* and every kind of ranking request.
Next ==
    \/ Tick
    \/ lifespan
    \/ create_feed("f1", FeedName("f1"))
    \/ delete_feed("f1")
    \/ \E u \in Urls : toggle_like_article(u)
    \/ \E r \in Reqs, a \in RankArgs : get_all_articles(r, a[1], a[2], a[3])
    \/ \E r \in Reqs : \E i \in 1..Len(reqs[r].tasks) :
         \E outcome \in FetchOutcomes(Responses(reqs[r].tasks[i].url)) :
            parse_feed(r, i, outcome)
    \/ \E r \in Reqs, a \in RankArgs :
         get_all_articles_resume(r, a[1], a[2], a[3])

Spec == Init /\ [][Next]_vars

\* The server of app.py with two registered feeds and no likes.
NextFeeds ==
    \/ Tick
    \/ lifespan
    \/ \E f \in FeedUrls : create_feed(f, FeedName(f))
    \/ \E f \in FeedUrls : delete_feed(f)
    \/ \E r \in Reqs : get_all_articles(r, 0, 2, FALSE)
    \/ \E r \in Reqs : \E i \in 1..Len(reqs[r].tasks) :
         \E outcome \in FetchOutcomes(ShortResponses(reqs[r].tasks[i].url)) :
            parse_feed(r, i, outcome)
    \/ \E r \in Reqs : get_all_articles_resume(r, 0, 2, FALSE)

SpecFeeds == Init /\ [][NextFeeds]_vars

\* A process that ingests with utils.parse_all_feeds: the database as setup_db
\* leaves it, the feed and like operations, and the sequential batch.
InitUtils ==
    /\ feeds = <<>>
    /\ articles = <<>>
    /\ now = StartTime
    /\ started = TRUE
    /\ article_cache = EmptyCache(<<>>)
    /\ liked_article_cache = EmptyCache({})
    /\ svm_cache = EmptyCache(FALSE)
    /\ model = NewModel
    /\ reqs = [r \in Reqs |-> IdleReq]
    /\ batch = IdleBatch
    /\ resp = NoResponse

NextUtils ==
    \/ Tick
    \/ \E f \in FeedUrls : create_feed(f, FeedName(f))
    \/ \E f \in FeedUrls : delete_feed(f)
    \/ \E u \in Urls : toggle_like_article(u)
    \/ parse_all_feeds
    \/ /\ batch.running
       /\ \E outcome \in FetchOutcomes(ShortResponses(Head(batch.todo).url)) :
            parse_one_feed(outcome)

SpecUtils == InitUtils /\ [][NextUtils]_vars

\* Two ranking requests served concurrently by the one event loop.
Requests == {"r1", "r2"}

InitRequests ==
    /\ feeds = <<>>
    /\ articles = <<>>
    /\ now = StartTime
    /\ started = FALSE
    /\ article_cache = EmptyCache(<<>>)
    /\ liked_article_cache = EmptyCache({})
    /\ svm_cache = EmptyCache(FALSE)
    /\ model = NewModel
    /\ reqs = [r \in Requests |-> IdleReq]
    /\ batch = IdleBatch
    /\ resp = NoResponse

\* One feed with fixed content: the three-entry document of Responses.
FullResponses(feed_url) == { <<ItemA, ItemE, ItemC>> }

\* The server of app.py with one feed, likes of u2, and two clients whose
\* requests overlap at the feed fetch.
NextRequests ==
    \/ Tick
    \/ lifespan
    \/ create_feed("f1", FeedName("f1"))
    \/ toggle_like_article("u2")
    \/ \E r \in Requests, refresh \in BOOLEAN : get_all_articles(r, 0, 3, refresh)
    \/ \E r \in Requests : \E i \in 1..Len(reqs[r].tasks) :
         \E outcome \in FetchOutcomes(FullResponses(reqs[r].tasks[i].url)) :
            parse_feed(r, i, outcome)
    \/ \E r \in Requests, refresh \in BOOLEAN :
         get_all_articles_resume(r, 0, 3, refresh)

SpecRequests == InitRequests /\ [][NextRequests]_vars

\* The corpora passed to train_embeddings: lists of article texts.
Datasets == UNION { [1..n -> Texts] : n \in 0..MaxCorpus }

\* model.train_embeddings(dataset), called on the process-wide model.
train_embeddings_call(dataset) ==
    /\ model' = train_embeddings(model, dataset).model
    /\ resp' = [Message("train_embeddings", "") EXCEPT
                  !.items = dataset,
                  !.embeddings_exist = train_embeddings(model, dataset).ok]
    /\ UNCHANGED <<feeds, articles, now, started, article_cache,
                   liked_article_cache, svm_cache, reqs, batch>>

\* The embedding trainer on its own: any sequence of train_embeddings calls on
\* one SVMModel.
NextTrainer == \E dataset \in Datasets : train_embeddings_call(dataset)

SpecTrainer == InitUtils /\ [][NextTrainer]_vars

-----------------------------------------------------------------------------
(* Properties *)

StoredUrls(rows) == { rows[i].url : i \in 1..Len(rows) } \ {NULL}

\* The steps that upsert a fetched document.
IngestionOps == {"parse_feed", "parse_one_feed", "parse_all_feeds"}

\* C1. Like preservation: a feed ingestion (the upsert of parse_feed or of
\* parse_all_feeds) never changes the is_liked of an article whose url is already
\* stored; a liked article stays liked through every later ingestion of its url.
LikePreservation ==
    [][resp'.op \in IngestionOps =>
         \A i \in 1..Len(articles) :
            articles[i].url # NULL =>
               \E j \in 1..Len(articles') :
                  /\ articles'[j].url = articles[i].url
                  /\ articles'[j].is_liked = articles[i].is_liked]_vars

\* A parse_feed has just upserted a url whose stored row is liked.
LikedRowReingested ==
    /\ resp.op = "parse_feed"
    /\ \E k \in 1..Len(resp.items), i \in 1..Len(articles) :
          /\ resp.items[k].url # NULL
          /\ articles[i].url = resp.items[k].url
          /\ articles[i].is_liked

\* C2. At most one article row per distinct url value, in every reachable state.
UniqueUrl ==
    \A i, j \in 1..Len(articles) :
       (i # j /\ articles[i].url = articles[j].url) => articles[i].url = NULL

\* Both feeds have been ingested and list the same url, which is stored once.
SharedUrlStoredOnce ==
    /\ resp.op = "parse_feed"
    /\ resp.url = "f2"
    /\ "u1" \in StoredUrls(articles)
    /\ \E i \in 1..Len(feeds) : feeds[i].url = "f1" /\ feeds[i].timestamp # DatetimeMin
    /\ Len(articles) = 2

\* C3. Upsert idempotence: once a document has been ingested, ingesting the same
\* document again leaves the articles table as it is.
UpsertIdempotence ==
    (resp.op = "parse_feed" /\ resp.error = "") =>
        InsertArticles(articles, resp.items) = articles

\* C4. Only entries with both a title and a link are stored: no row lacks either.
OnlyCompleteEntriesStored ==
    \A i \in 1..Len(articles) :
       articles[i].url # NULL /\ articles[i].title # NULL

\* C5. toggle_like on a url that is not stored reports a not-found failure.
ToggleAbsentIsNotFound ==
    (resp.op = "toggle_like_article" /\ resp.url \notin StoredUrls(articles))
        => resp.status = "error"

\* C6. After every parse attempt on a feed, failed or not, the feed's timestamp is
\* the time of the attempt.
EveryAttemptMarksRefreshed ==
    resp.op = "parse_feed" =>
        \A i \in 1..Len(feeds) :
           feeds[i].url = resp.url => feeds[i].timestamp = resp.current_time

\* C7. A fetch failure of one feed raises nothing out of the refresh batch.
BatchNeverRaises == ~(resp.op = "parse_all_feeds" /\ resp.status = "error")

\* C8. A ranking request fetches exactly the stale feeds: those with
\* now - timestamp > TTL, which includes every feed still at the datetime.min
\* it was registered with.
StaleFeedsFetched ==
    [][\A r \in Reqs :
         (reqs[r].pc = "idle"
            /\ (reqs'[r].pc = "fetching" \/ resp'.op = "get_all_articles"))
         => /\ \A i \in 1..Len(feeds) :
                 (now - feeds[i].timestamp > CACHE_TTL)
                    <=> \E k \in 1..Len(reqs'[r].tasks) :
                           reqs'[r].tasks[k].url = feeds[i].url
            /\ Len(reqs'[r].tasks) =
                 Cardinality({ i \in 1..Len(feeds) :
                                 now - feeds[i].timestamp > CACHE_TTL })
            /\ \A i \in 1..Len(feeds) :
                 feeds[i].timestamp = DatetimeMin
                    => \E k \in 1..Len(reqs'[r].tasks) :
                          reqs'[r].tasks[k].url = feeds[i].url]_vars

\* A request that started now is fetching one of two registered feeds: the other
\* was refreshed within the TTL.
OnlyStaleFeedFetched ==
    \E r \in Reqs :
       /\ reqs[r].pc = "fetching"
       /\ Len(reqs[r].tasks) = 1
       /\ reqs[r].tasks[1].current_time = now
       /\ resp.op = "none"
       /\ Len(feeds) = 2
       /\ \E i \in 1..Len(feeds) :
             /\ feeds[i].url # reqs[r].tasks[1].url
             /\ feeds[i].timestamp # DatetimeMin
             /\ now - feeds[i].timestamp <= CACHE_TTL

\* C9. Whenever no classifier exists before a ranking request (with a valid page
\* size) and none exists after it, the request raises nothing and returns every
\* loaded article with svm_prob 0.5.
AmbivalenceFallback ==
    [][(resp'.op = "get_all_articles" /\ resp'.error # "ZeroDivisionError"
           /\ model.svm.state # "fitted" /\ model'.svm.state # "fitted")
       => /\ resp'.status = "ok"
          /\ Len(resp'.parsed_articles) = Len(article_cache'.value)
          /\ \A k \in 1..Len(resp'.parsed_articles) :
                /\ resp'.parsed_articles[k].url = article_cache'.value[k].url
                /\ resp'.parsed_articles[k].svm_prob = Ambivalent]_vars

\* a.date >= b.date with a null date the oldest possible date.
DateGeq(a, b) == b = NullDate \/ (a # NullDate /\ a >= b)

\* C10. Sort law: in a returned page, an item precedes another only with a higher
\* svm_prob, or an equal svm_prob and a date that is not older, a null date being
\* older than every date.
SortLaw ==
    (resp.op = "get_all_articles" /\ resp.status = "ok") =>
        \A i, j \in 1..Len(resp.items) :
           i < j =>
              \/ resp.items[i].svm_prob > resp.items[j].svm_prob
              \/ /\ resp.items[i].svm_prob = resp.items[j].svm_prob
                 /\ DateGeq(resp.items[i].date, resp.items[j].date)

\* A ranking request has returned a result.
Ranked == resp.op = "get_all_articles" /\ resp.status = "ok"

\* C11. Pagination over the sorted list: a returned page is the page's slice of
\* the full list sorted by (descending svm_prob, descending date), so that the
\* pages concatenate to a prefix of the sorted list.
PagesSliceSortedList ==
    Ranked =>
        resp.items = Slice(SortedByKey(resp.parsed_articles),
                           resp.page_num * resp.items_per_page,
                           resp.page_num * resp.items_per_page
                              + resp.items_per_page)

\* C12. For items_per_page >= 1 the returned total_pages is
\* floor(total_items / items_per_page): the number of full pages.
TotalPagesIsFloor ==
    (Ranked /\ resp.items_per_page >= 1) =>
        /\ resp.total_pages * resp.items_per_page <= Len(resp.parsed_articles)
        /\ Len(resp.parsed_articles)
              < (resp.total_pages + 1) * resp.items_per_page

\* Three ranked articles in pages of two: one page counted, the partial one not.
PartialPageNotCounted ==
    /\ Ranked
    /\ Len(resp.parsed_articles) = 3
    /\ resp.items_per_page = 2
    /\ resp.total_pages = 1

\* C13. A ranking request with items_per_page = 0 never ends in a division fault.
ZeroPageSizeRejected ==
    ~(resp.op = "get_all_articles" /\ resp.error = "ZeroDivisionError")

\* C14. A ranking request with a valid page size returns a result whatever the
\* store holds: training the classifier never makes it fail.
TrainingNeverFailsRequest ==
    (resp.op = "get_all_articles" /\ resp.items_per_page >= 1)
        => resp.status = "ok"

\* C15. No stale read after a write: a ranking request returns no article that
\* the store no longer holds; after delete_feed the deleted feed's articles are
\* not ranked.
NoStaleReadAfterWrite ==
    Ranked =>
        \A k \in 1..Len(resp.parsed_articles) :
           resp.parsed_articles[k].url # NULL
              => resp.parsed_articles[k].url \in StoredUrls(articles)

\* C16. After toggle_like_article the liked-url cache is empty, and stays empty
\* until a ranking request (or the startup refresh) reads the liked urls; a
\* ranking request that finds it empty reports, for every ranked article the
\* store holds, the is_liked the store has, whatever the cached article rows say.
LikedFromAuthoritativeSet ==
    [][/\ resp'.op = "toggle_like_article" => ~liked_article_cache'.full
       /\ (~liked_article_cache.full /\ liked_article_cache'.full)
             => (resp'.op = "get_all_articles" \/ ~started)
       /\ (resp'.op = "get_all_articles" /\ resp'.status = "ok"
              /\ ~liked_article_cache.full)
             => \A k \in 1..Len(resp'.parsed_articles) :
                   \A i \in 1..Len(articles') :
                      (articles'[i].url # NULL
                         /\ articles'[i].url = resp'.parsed_articles[k].url)
                      => resp'.parsed_articles[k].is_liked
                            = articles'[i].is_liked]_vars

\* A ranking request without forced refresh has just read the liked urls and
\* reports the stored, liked article as liked.
ToggledLikeRanked ==
    /\ Ranked
    /\ ~resp.refresh
    /\ liked_article_cache.full
    /\ liked_article_cache.expires = now + CACHE_TTL
    /\ \E k \in 1..Len(resp.parsed_articles), i \in 1..Len(articles) :
          /\ articles[i].url = "u2"
          /\ articles[i].is_liked
          /\ resp.parsed_articles[k].url = "u2"
          /\ resp.parsed_articles[k].is_liked

\* C17. Once the embeddings are fitted, every later train_embeddings call, with
\* any corpus, returns true and leaves the model as it is.
TrainIsNoOpOnceFitted ==
    [][(resp'.op = "train_embeddings" /\ model.emb)
         => (resp'.embeddings_exist /\ model' = model)]_vars

\* C18. A forced refresh (refresh = true) resets the embedding model and the
\* classifier to untrained: after such a request the embeddings are fitted only
\* if the stored corpus was large enough to fit them again, and a fitted
\* classifier exists only if this request trained it.
ForcedRefreshResetsModels ==
    (resp.op = "get_all_articles" /\ resp.refresh) =>
        /\ model.emb => Len(gen_embeddings_data(articles)) >= min_dataset_size
        /\ model.svm.state = "fitted" => resp.svm_is_trained

\* C19. Classifier training set: with at least one liked article, it holds every
\* liked article and every sampled unliked article except those that lack both
\* description and title.
TrainingSetConstruction ==
    \A sample \in Samples(articles) :
       LikedIdx(articles) # {} =>
          gen_svm_data(articles, sample).X =
             { i \in LikedIdx(articles) \cup sample :
                 Truthy(articles[i].description) \/ Truthy(articles[i].title) }

\* C20. Feed deletion cascades: after delete_feed(u) no feed has url u and no
\* article has feed_url u; the other feeds and the other articles are unchanged.
DeleteFeedCascades ==
    [][resp'.op = "delete_feed" =>
         /\ \A i \in 1..Len(feeds') : feeds'[i].url # resp'.url
         /\ \A i \in 1..Len(articles') : articles'[i].feed_url # resp'.url
         /\ \A i \in 1..Len(feeds) :
               feeds[i].url # resp'.url
                  => \E j \in 1..Len(feeds') : feeds'[j] = feeds[i]
         /\ \A i \in 1..Len(articles) :
               articles[i].feed_url # resp'.url
                  => \E j \in 1..Len(articles') : articles'[j] = articles[i]
         /\ Len(feeds') <= Len(feeds)
         /\ Len(articles') <= Len(articles)]_vars

\* f1 has just been deleted while f2, ingested, stays: f2's document lists u1 and
\* u3, and u1, last ingested by f1, went with f1.
SharedArticleWentWithFeed ==
    /\ resp.op = "delete_feed"
    /\ resp.url = "f1"
    /\ Len(feeds) = 1
    /\ feeds[1].url = "f2"
    /\ feeds[1].timestamp # DatetimeMin
    /\ Len(articles) = 1
    /\ articles[1].url = "u3"

\* The entries the modelled feeds serve.
Items == {ItemA, ItemB, ItemC, ItemD, ItemE}

\* The description an entry should get: the first value of its content body, else
\* the value of its description field (the first value of a multi-value one),
\* else null.
NormalizedDescription(item) ==
    IF item.content # <<>> THEN Head(item.content)
    ELSE IF item.description.kind = "absent" THEN NULL
         ELSE Head(item.description.value)

\* C23. Description normalization: every tuple a parse produces carries the
\* normalized description of the entry it was made from (entries are told apart
\* by their titles).
DescriptionNormalized ==
    resp.op = "parse_feed" =>
        \A k \in 1..Len(resp.items) :
           \A item \in Items :
              (item.title # NULL /\ item.title = resp.items[k].title)
                 => resp.items[k].description = NormalizedDescription(item)

\* C21. Trained-flag consistency: while fit_svm's cached result is True the model
\* has a fitted transform and a classifier fitted on vectors of that transform,
\* and every svm_prob of a ranking result is a probability (in percent).
TrainedFlagConsistency ==
    /\ (CacheHit(svm_cache, now) /\ svm_cache.value)
          => /\ model.emb
             /\ model.svm.state = "fitted"
             /\ model.svm.trained_on = model.transform
    /\ Ranked =>
          /\ resp.svm_is_trained
                => /\ model.emb
                   /\ model.svm.state = "fitted"
                   /\ model.svm.trained_on = model.transform
          /\ \A k \in 1..Len(resp.parsed_articles) :
                /\ 0 <= resp.parsed_articles[k].svm_prob
                /\ resp.parsed_articles[k].svm_prob <= 100

\* A ranking request has scored with a trained classifier, one article high and
\* one low, and fit_svm's True is cached.
TrainedRanking ==
    /\ Ranked
    /\ resp.svm_is_trained
    /\ CacheHit(svm_cache, now)
    /\ svm_cache.value
    /\ \E k \in 1..Len(resp.parsed_articles) :
          resp.parsed_articles[k].svm_prob = ProbHigh
    /\ \E k \in 1..Len(resp.parsed_articles) :
          resp.parsed_articles[k].svm_prob = ProbLow

\* C22. The train-and-score phase of a request is never interleaved with another
\* request's: a request is suspended only at its feed fetches; the model changes
\* only in the step of a ranking request (or of the startup refresh) that also
\* scores and answers; and the scores a request returns are those of the model
\* as its own fit_svm left it.
TrainAndScoreAtomic ==
    [][/\ \A r \in Requests : reqs'[r].pc \in {"idle", "fetching"}
       /\ model' # model => (resp'.op = "get_all_articles" \/ ~started)
       /\ (resp'.op = "get_all_articles" /\ resp'.status = "ok")
             => \A k \in 1..Len(resp'.parsed_articles) :
                   resp'.parsed_articles[k].svm_prob
                      = Score(model', resp'.svm_is_trained,
                              resp'.parsed_articles[k])]_vars

\* One request has trained and scored while the other is suspended at its fetch.
RankedWhileOtherFetches ==
    /\ Ranked
    /\ resp.svm_is_trained
    /\ model.svm.state = "fitted"
    /\ \E r \in Requests : reqs[r].pc = "fetching" /\ reqs[r].tasks # <<>>

====
